---- MODULE Spec2Model ----
(***************************************************************************)
(* Model of GlobalNewsFetcher (internet_killer/core/news_fetcher.py).      *)
(*                                                                         *)
(* Text values (title, description, content, url, ...) are sequences of    *)
(* one-character strings, so that slicing ([:1000]) and concatenation      *)
(* (+ "...") are computed as Python computes them.  A value read from a    *)
(* JSON object or from a feed entry is a record [tag, val]: tag "absent"   *)
(* (no such key / attribute), "null" (JSON null) or "str" (val is the      *)
(* text).  A name taken from the configuration is one symbol of a text.   *)
(*                                                                         *)
(* The model follows the collectors of one calendar day: today_str, and    *)
(* with it the two file names, is the same for every call.                 *)
(*   Spec      calls of collect_all_news, one after the other              *)
(*   SpecRun   one run on a day without files, with more articles          *)
(*   SpecFetch one call of _fetch_news_by_config or _fetch_rss_news        *)
(***************************************************************************)
EXTENDS Integers, Sequences, FiniteSets, TLC

\* ------------------------------------------------------------------ bounds
MaxCalls == 2        \* calls of collect_all_news in one behaviour of Spec
MaxPayloads == 1     \* fetches that return articles in one behaviour of Spec
MaxRunPayloads == 2  \* fetches that return articles in the run of SpecRun
MaxRespLen == 2      \* articles of an answer, entries of a feed in SpecFetch

\* ------------------------------------------------------- program constants
ContentLimit == 1000
SummaryLimit == 200
RssLimit == 10
NumConfigs == 12
NumRss == 6

\* --------------------------------------------------------------- text
Ellipsis == <<".", ".", ".">>
Unknown == <<"U", "n", "k", "n", "o", "w", "n">>
Now == <<"n", "o", "w">>

Absent == [tag |-> "absent", val |-> <<>>]
Null == [tag |-> "null", val |-> <<>>]
Str(s) == [tag |-> "str", val |-> s]

\* Python s[:n]
Take(s, n) == SubSeq(s, 1, IF Len(s) < n THEN Len(s) ELSE n)

\* Python truthiness of a value read from a JSON object
Truthy(f) == f.tag = "str" /\ f.val # <<>>

\* a text of n characters whose i-th character depends on i
Text(n) == [i \in 1..n |-> IF i % 3 = 0 THEN "a" ELSE IF i % 3 = 1 THEN "b" ELSE "c"]

\* ------------------------------------------------------ fixed source lists
countries_and_categories ==
  << [name |-> "kr_all",           country |-> "kr",   category |-> "none",          sources |-> "none"],
     [name |-> "kr_technology",    country |-> "kr",   category |-> "technology",    sources |-> "none"],
     [name |-> "kr_business",      country |-> "kr",   category |-> "business",      sources |-> "none"],
     [name |-> "kr_entertainment", country |-> "kr",   category |-> "entertainment", sources |-> "none"],
     [name |-> "us_all",           country |-> "us",   category |-> "none",          sources |-> "none"],
     [name |-> "us_technology",    country |-> "us",   category |-> "technology",    sources |-> "none"],
     [name |-> "us_business",      country |-> "us",   category |-> "business",      sources |-> "none"],
     [name |-> "us_politics",      country |-> "us",   category |-> "politics",      sources |-> "none"],
     [name |-> "gb_all",           country |-> "gb",   category |-> "none",          sources |-> "none"],
     [name |-> "gb_business",      country |-> "gb",   category |-> "business",      sources |-> "none"],
     [name |-> "gb_politics",      country |-> "gb",   category |-> "politics",      sources |-> "none"],
     [name |-> "global_major",     country |-> "none", category |-> "none",
      sources |-> "bbc-news,cnn,reuters,associated-press,techcrunch"] >>

rss_sources ==
  << [url |-> "feeds.yna.co.kr/news",          name |-> "yna",      country |-> "kr"],
     [url |-> "www.mk.co.kr/rss/30000001",     name |-> "mk",       country |-> "kr"],
     [url |-> "news.chosun.com/rss.xml",       name |-> "chosun",   country |-> "kr"],
     [url |-> "feeds.bbci.co.uk/news/rss.xml", name |-> "BBC",      country |-> "gb"],
     [url |-> "www.theguardian.com/world/rss", name |-> "Guardian", country |-> "gb"],
     [url |-> "rss.cnn.com/rss/edition.rss",   name |-> "CNN",      country |-> "us"] >>

\* --------------------------------------------------- _fetch_news_by_config
\* the query parameters of the request (apiKey left out)
RequestParams(config) ==
  [pageSize |-> 20,
   country  |-> IF config.country \in {"kr", "gb"} THEN config.country
                ELSE IF config.sources # "none" THEN "none"
                ELSE config.country,
   language |-> IF config.country = "kr" THEN "none" ELSE "en",
   sources  |-> IF config.country \notin {"kr", "gb"} /\ config.sources # "none"
                THEN config.sources ELSE "none",
   category |-> config.category]

\* article["k"] raises KeyError when the key is absent; the fields are read
\* in the order of the source: title, then description only when the title
\* is truthy, then (for an included article) url, source.name, publishedAt
ApiArticleRaises(a) ==
  \/ a.title.tag = "absent"
  \/ /\ Truthy(a.title)
     /\ \/ a.description.tag = "absent"
        \/ /\ Truthy(a.description)
           /\ \/ a.url.tag = "absent"
              \/ a.source.tag # "str"
              \/ a.publishedAt.tag = "absent"

ApiArticleIncludedTitleOnly(a) == Truthy(a.title)

ApiArticleIncluded(a) == Truthy(a.title) /\ Truthy(a.description)

ApiContent(a) ==
  IF Truthy(a.content) THEN Take(a.content.val, ContentLimit) \o Ellipsis ELSE <<>>

ApiProcess(config, a, n) ==
  [id           |-> <<config.name, n>>,
   title        |-> a.title.val,
   description  |-> a.description.val,
   content      |-> ApiContent(a),
   url          |-> a.url,
   source_name  |-> a.source.val,
   category     |-> <<config.name>>,
   country      |-> IF config.country = "none" THEN "global" ELSE config.country,
   published_at |-> a.publishedAt,
   collected_at |-> Now,
   author       |-> IF a.author.tag = "absent" THEN Str(Unknown) ELSE a.author]

\* the loop over data["articles"]: [ok, articles]; ok = FALSE when an
\* exception left the loop
RECURSIVE ApiLoop(_, _, _)
ApiLoop(config, raws, acc) ==
  IF raws = <<>> THEN [ok |-> TRUE, articles |-> acc]
  ELSE IF ApiArticleRaises(Head(raws)) THEN [ok |-> FALSE, articles |-> <<>>]
  ELSE IF ApiArticleIncluded(Head(raws))
       THEN ApiLoop(config, Tail(raws), Append(acc, ApiProcess(config, Head(raws), Len(acc))))
       ELSE ApiLoop(config, Tail(raws), acc)

\* response: [kind, articles]; kind "ok" is a 2xx answer with a JSON object,
\* articles is Absent, Null or [tag |-> "list", val |-> <<raw article, ...>>]
ApiRaises(config, response) ==
  \/ response.kind # "ok"
  \/ response.articles.tag = "null"
  \/ /\ response.articles.tag = "list"
     /\ ~ApiLoop(config, response.articles.val, <<>>).ok

\* the loop when the except branch hands back what was built so far
RECURSIVE ApiLoopPartial(_, _, _)
ApiLoopPartial(config, raws, acc) ==
  IF raws = <<>> \/ ApiArticleRaises(Head(raws)) THEN acc
  ELSE IF ApiArticleIncluded(Head(raws))
       THEN ApiLoopPartial(config, Tail(raws), Append(acc, ApiProcess(config, Head(raws), Len(acc))))
       ELSE ApiLoopPartial(config, Tail(raws), acc)

FetchNewsByConfigPartial(config, response) ==
  IF response.kind = "ok" /\ response.articles.tag = "list"
  THEN ApiLoopPartial(config, response.articles.val, <<>>)
  ELSE <<>>

FetchNewsByConfig(config, response) ==
  IF ApiRaises(config, response) THEN <<>>
  ELSE IF response.articles.tag = "absent" THEN <<>>
  ELSE ApiLoop(config, response.articles.val, <<>>).articles

\* --------------------------------------------------------- _fetch_rss_news
\* entry.title and entry.link raise AttributeError when absent; content is a
\* list of dicts (Absent when the entry has no content attribute), [0] of an
\* empty list raises IndexError
RssEntryRaises(e) ==
  \/ e.title.tag = "absent"
  \/ e.content.tag = "list" /\ e.content.val = <<>>
  \/ e.link.tag = "absent"

RssDescription(e) ==
  Take(IF e.summary.tag = "absent" THEN e.title.val ELSE e.summary.val, SummaryLimit) \o Ellipsis

RssContent(e) ==
  IF e.content.tag = "list"
  THEN Take(IF e.content.val[1].tag = "absent" THEN <<>> ELSE e.content.val[1].val,
            ContentLimit) \o Ellipsis
  ELSE <<>>

RssProcess(rss_config, e, n) ==
  [id           |-> <<rss_config.name, n>>,
   title        |-> e.title.val,
   description  |-> RssDescription(e),
   content      |-> RssContent(e),
   url          |-> e.link,
   source_name  |-> <<rss_config.name>>,
   category     |-> <<rss_config.name, " RSS">>,
   country      |-> rss_config.country,
   published_at |-> IF e.published.tag = "absent" THEN Str(Now) ELSE e.published,
   collected_at |-> Now,
   author       |-> IF e.author.tag = "absent" THEN Str(Unknown) ELSE e.author]

RECURSIVE RssLoop(_, _, _)
RssLoop(rss_config, entries, acc) ==
  IF entries = <<>> THEN [ok |-> TRUE, articles |-> acc]
  ELSE IF RssEntryRaises(Head(entries)) THEN [ok |-> FALSE, articles |-> <<>>]
  ELSE RssLoop(rss_config, Tail(entries), Append(acc, RssProcess(rss_config, Head(entries), Len(acc))))

\* feed: [kind, entries]; kind "raise" is an exception out of
\* feedparser.parse, any other kind returns a feed (an unreachable or
\* malformed feed has no entries)
RssRaises(rss_config, feed) ==
  \/ feed.kind = "raise"
  \/ ~RssLoop(rss_config, Take(feed.entries, RssLimit), <<>>).ok

FetchRssNews(rss_config, feed) ==
  IF RssRaises(rss_config, feed) THEN <<>>
  ELSE RssLoop(rss_config, Take(feed.entries, RssLimit), <<>>).articles

\* ------------------------------------------------------- _remove_duplicates
RECURSIVE RemoveLoop(_, _, _)
RemoveLoop(articles, seen_urls, unique) ==
  IF articles = <<>> THEN unique
  ELSE IF Head(articles).url \notin seen_urls
       THEN RemoveLoop(Tail(articles), seen_urls \cup {Head(articles).url},
                       Append(unique, Head(articles)))
       ELSE RemoveLoop(Tail(articles), seen_urls, unique)

\* keeps the last article of a url instead of the first
RECURSIVE RemoveLoopLast(_)
RemoveLoopLast(articles) ==
  IF articles = <<>> THEN <<>>
  ELSE IF \E j \in 2..Len(articles) : articles[j].url = Head(articles).url
       THEN RemoveLoopLast(Tail(articles))
       ELSE <<Head(articles)>> \o RemoveLoopLast(Tail(articles))

RemoveDuplicatesKeepLast(articles) == RemoveLoopLast(articles)

RemoveDuplicates(articles) == RemoveLoop(articles, {}, <<>>)


\* ---------------------------------------------------------- _save_to_files
today_str == "20250101"

\* a value of a DataFrame cell as to_csv writes it: None becomes the empty cell
CsvCell(f) == IF f.tag = "str" THEN f.val ELSE <<>>

CsvColumns ==
  <<"id", "title", "description", "content", "url", "source_name", "category",
    "country", "published_at", "collected_at", "author">>

CsvRow(a) ==
  <<a.id, a.title, a.description, a.content, CsvCell(a.url), a.source_name,
    a.category, a.country, CsvCell(a.published_at), a.collected_at, CsvCell(a.author)>>

RECURSIVE CsvRows(_)
CsvRows(articles) ==
  IF articles = <<>> THEN <<>> ELSE <<CsvRow(Head(articles))>> \o CsvRows(Tail(articles))

NoCsv == [exists |-> FALSE, whole |-> FALSE, columns |-> <<>>, rows |-> <<>>]
NoJson == [exists |-> FALSE, whole |-> FALSE, collection_date |-> "none",
           total_articles |-> 0, articles |-> <<>>]

\* df.to_csv(self.csv_file, index=False): the file as written in full
CsvOf(articles) ==
  [exists |-> TRUE, whole |-> TRUE,
   columns |-> IF articles = <<>> THEN <<>> ELSE CsvColumns,
   rows |-> CsvRows(articles)]

\* json.dump(json_data, f): the file as written in full
JsonOf(articles) ==
  [exists |-> TRUE, whole |-> TRUE, collection_date |-> today_str,
   total_articles |-> Len(articles), articles |-> articles]

\* what a write that raises midway leaves behind: the file exists and is cut
\* short (how much of it was written is not recorded)
CsvPartial(articles) == [CsvOf(articles) EXCEPT !.whole = FALSE, !.rows = <<>>]
JsonPartial(articles) == [JsonOf(articles) EXCEPT !.whole = FALSE, !.articles = <<>>]

\* the points at which the try block of _save_to_files can be left
\* ("csv_open": before anything is written, pd.DataFrame included)
SaveErrors == {"none", "csv_open", "csv_write", "json_open", "json_write"}

\* the CSV file when it is opened for appending
SaveCsvAppend(old, articles, err) ==
  CASE err = "csv_open" -> old
    [] err = "csv_write" -> CsvPartial(articles)
    [] OTHER -> [CsvOf(articles) EXCEPT !.rows = old.rows \o @]

\* the CSV file after _save_to_files(articles) that ended with error err
SaveCsv(old, articles, err) ==
  CASE err = "csv_open" -> old
    [] err = "csv_write" -> CsvPartial(articles)
    [] OTHER -> CsvOf(articles)

\* the JSON file when the dump is left out
SaveJsonSkipped(old, articles, err) == old

\* the JSON file after _save_to_files(articles) that ended with error err
SaveJson(old, articles, err) ==
  CASE err \in {"csv_open", "csv_write", "json_open"} -> old
    [] err = "json_write" -> JsonPartial(articles)
    [] OTHER -> JsonOf(articles)

\* --------------------------------------------------------------- results
NoResult == [status |-> "none", date |-> "none", message |-> "none",
             total_articles |-> 0, files |-> <<>>]
Running == [NoResult EXCEPT !.status = "running"]
AlreadyExists == [NoResult EXCEPT !.status = "already_exists", !.date = today_str]
KeyMissing == [NoResult EXCEPT !.status = "error", !.message = "API key missing"]
Success(unique) ==
  [NoResult EXCEPT !.status = "success", !.date = today_str,
                   !.total_articles = Len(unique), !.files = <<"csv_file", "json_file">>]

\* ------------------------------------------------------------------ inputs
U1 == <<"u", "1">>
U2 == <<"u", "2">>
T1 == <<"t", "1">>
T2 == <<"t", "2">>
T3 == <<"t", "3">>

RawArticle(url, title) ==
  [title |-> Str(title), description |-> Str(<<"d">>), content |-> Str(<<"c">>),
   url |-> Str(url), source |-> Str(<<"s">>), publishedAt |-> Str(<<"p">>),
   author |-> Absent]

RawEntry(link, title) ==
  [title |-> Str(title), summary |-> Str(<<"s", "m">>), content |-> Absent,
   link |-> Str(link), published |-> Str(<<"p">>), author |-> Absent]

ApiOk(raws) == [kind |-> "ok", articles |-> [tag |-> "list", val |-> raws]]
ApiKind(k) == [kind |-> k, articles |-> Absent]
FeedOk(entries) == [kind |-> "ok", entries |-> entries]

\* answers of the headline API in a collection run
ApiResponses ==
  { ApiKind("timeout"), ApiKind("http_error"), ApiKind("bad_json"),
    ApiOk(<<>>),
    ApiOk(<<RawArticle(U2, T2), RawArticle(U1, T3)>>),
    ApiOk(<<RawArticle(U1, T1), [RawArticle(U2, T2) EXCEPT !.url = Absent]>>) }

\* outcomes of feedparser.parse in a collection run
RssFeeds ==
  { [kind |-> "raise", entries |-> <<>>],
    [kind |-> "unreachable", entries |-> <<>>],
    FeedOk(<<RawEntry(U1, T1), RawEntry(U2, T2)>>),
    FeedOk(<<RawEntry(U1, T1), [RawEntry(U2, T2) EXCEPT !.link = Absent]>>) }

\* the environment has the key or not (os.getenv gives None)
Keys == {"KEY", "None"}

\* ------------------------------------------------------------------- state
VARIABLES
  api_key,          \* self.api_key: "None" is None
  csv_file,         \* the day's CSV file
  json_file,        \* the day's JSON file
  pc,               \* position in collect_all_news: idle, api, rss, save
  force_update,     \* argument of the current (or last) call
  idx,              \* index of the next source in its list
  all_articles,
  unique_articles,
  result,           \* value returned by the last call
  api_requests,     \* requests.get calls of the current (or last) call
  rss_fetches,      \* feedparser.parse calls of the current (or last) call
  last_fetch,       \* outcome of the last fetch
  save_error,       \* where _save_to_files raised in the last call
  csv_writes,       \* writes to the CSV file in the current (or last) call
  json_writes,      \* writes to the JSON file in the current (or last) call
  entry,            \* what the current (or last) call found when it was entered
  calls_left,       \* calls of collect_all_news still to be made
  payloads_left,    \* fetches that may still return articles
  f_in,             \* SpecFetch: the source fetched and its answer
  f_out             \* SpecFetch: the list the fetch returned

vars == <<api_key, csv_file, json_file, pc, force_update, idx, all_articles,
          unique_articles, result, api_requests, rss_fetches, last_fetch,
          save_error, csv_writes, json_writes, entry, calls_left, payloads_left, f_in, f_out>>


NoFetch == [kind |-> "none", src |-> 0, failed |-> FALSE, n |-> 0]
NoEntry == [status |-> "none", force |-> FALSE, saved |-> FALSE,
            had_csv |-> FALSE, had_json |-> FALSE, had_rows |-> 0]
NoInput == [kind |-> "none", src |-> 0]

check_either_exists == csv_file.exists \/ json_file.exists

check_today_data_exists == csv_file.exists /\ json_file.exists

KeyMissingTestEmpty(k) == k = ""

\* not self.api_key
KeyMissingTest(k) == k \in {"", "None"}

\* the state after construction on a day without files
Fresh ==
  /\ csv_file = NoCsv
  /\ json_file = NoJson
  /\ pc = "idle"
  /\ force_update = FALSE
  /\ idx = 0
  /\ all_articles = <<>>
  /\ unique_articles = <<>>
  /\ result = NoResult
  /\ api_requests = <<>>
  /\ rss_fetches = <<>>
  /\ last_fetch = NoFetch
  /\ save_error = "none"
  /\ csv_writes = 0
  /\ json_writes = 0
  /\ entry = NoEntry
  /\ f_in = NoInput
  /\ f_out = <<>>

Init ==
  /\ Fresh
  /\ api_key \in Keys
  /\ calls_left = MaxCalls
  /\ payloads_left = MaxPayloads

\* GlobalNewsFetcher(): a new process reads the key from the environment
Construct ==
  /\ pc = "idle"
  /\ calls_left > 0
  /\ api_key' \in Keys
  /\ UNCHANGED <<csv_file, json_file, pc, force_update, idx, all_articles,
                 unique_articles, result, api_requests, rss_fetches, last_fetch,
                 save_error, csv_writes, json_writes, entry, calls_left, payloads_left, f_in, f_out>>

\* the entry of collect_all_news: the locals of the new call
Enter(force) ==
  /\ pc = "idle"
  /\ calls_left > 0
  /\ calls_left' = calls_left - 1
  /\ entry' = [status   |-> result.status,     \* the previous call: what it returned,
               force    |-> force_update,      \* its argument,
               saved    |-> result.status = "success" /\ save_error = "none",
               had_csv  |-> csv_file.exists,   \* the files as the call finds them
               had_json |-> json_file.exists,
               had_rows |-> Len(csv_file.rows)]
  /\ force_update' = force
  /\ all_articles' = <<>>
  /\ unique_articles' = <<>>
  /\ api_requests' = <<>>
  /\ rss_fetches' = <<>>
  /\ last_fetch' = NoFetch
  /\ save_error' = "none"
  /\ csv_writes' = 0
  /\ json_writes' = 0
  /\ UNCHANGED <<api_key, csv_file, json_file, payloads_left, f_in, f_out>>

\* collect_all_news, lines 50-53
CallAlreadyExists ==
  \E force \in BOOLEAN :
    /\ Enter(force)
    /\ check_today_data_exists /\ ~force
    /\ result' = AlreadyExists
    /\ pc' = "idle"
    /\ idx' = 0

\* collect_all_news, lines 55-57
CallKeyMissing ==
  \E force \in BOOLEAN :
    /\ Enter(force)
    /\ ~(check_today_data_exists /\ ~force)
    /\ KeyMissingTest(api_key)
    /\ result' = KeyMissing
    /\ pc' = "idle"
    /\ idx' = 0

\* collect_all_news, lines 59-60
CallStart ==
  \E force \in BOOLEAN :
    /\ Enter(force)
    /\ ~(check_today_data_exists /\ ~force)
    /\ ~KeyMissingTest(api_key)
    /\ result' = Running
    /\ pc' = "api"
    /\ idx' = 1

NextAfterApiSkip(i) ==
  IF i < NumConfigs - 1 THEN [pc |-> "api", idx |-> i + 1] ELSE [pc |-> "rss", idx |-> 1]

\* the loop of lines 85-88 after configuration i: the next position
NextAfterApi(i) ==
  IF i < NumConfigs THEN [pc |-> "api", idx |-> i + 1] ELSE [pc |-> "rss", idx |-> 1]

\* the loop of lines 91-94 after feed i: the next position
NextAfterRss(i) ==
  IF i < NumRss THEN [pc |-> "rss", idx |-> i + 1] ELSE [pc |-> "save", idx |-> 0]

FinishResultError(unique, err) ==
  IF err = "none" THEN Success(unique)
  ELSE [NoResult EXCEPT !.status = "error", !.message = "save failed"]

\* lines 103-108: _save_to_files has caught its exception, the return is
\* reached whatever err was
FinishResult(unique, err) == Success(unique)

\* one iteration of the loop of lines 85-88
FetchApi ==
  /\ pc = "api"
  /\ \E response \in ApiResponses :
       LET config == countries_and_categories[idx]
           articles == FetchNewsByConfig(config, response)
       IN /\ articles # <<>> => payloads_left > 0
          /\ payloads_left' = IF articles # <<>> THEN payloads_left - 1 ELSE payloads_left
          /\ api_requests' = Append(api_requests, [name |-> config.name, params |-> RequestParams(config)])
          /\ all_articles' = all_articles \o articles
          /\ last_fetch' = [kind |-> "api", src |-> idx,
                            failed |-> ApiRaises(config, response), n |-> Len(articles)]
  /\ pc' = NextAfterApi(idx).pc
  /\ idx' = NextAfterApi(idx).idx
  /\ UNCHANGED <<api_key, csv_file, json_file, force_update, unique_articles, result,
                 rss_fetches, save_error, csv_writes, json_writes, entry, calls_left, f_in, f_out>>

\* one iteration of the loop of lines 91-94
FetchRss ==
  /\ pc = "rss"
  /\ \E feed \in RssFeeds :
       LET rss_config == rss_sources[idx]
           rss_articles == FetchRssNews(rss_config, feed)
       IN /\ rss_articles # <<>> => payloads_left > 0
          /\ payloads_left' = IF rss_articles # <<>> THEN payloads_left - 1 ELSE payloads_left
          /\ rss_fetches' = Append(rss_fetches, rss_config.url)
          /\ all_articles' = all_articles \o rss_articles
          /\ last_fetch' = [kind |-> "rss", src |-> idx,
                            failed |-> RssRaises(rss_config, feed), n |-> Len(rss_articles)]
  /\ pc' = NextAfterRss(idx).pc
  /\ idx' = NextAfterRss(idx).idx
  /\ UNCHANGED <<api_key, csv_file, json_file, force_update, unique_articles, result,
                 api_requests, save_error, csv_writes, json_writes, entry, calls_left, f_in, f_out>>

\* lines 96-108: deduplicate, save, return
Finish ==
  /\ pc = "save"
  /\ \E err \in SaveErrors :
       LET unique == RemoveDuplicates(all_articles)
       IN
            /\ unique_articles' = unique
            /\ csv_file' = SaveCsv(csv_file, unique, err)
            /\ json_file' = SaveJson(json_file, unique, err)
            /\ csv_writes' = IF err = "csv_open" THEN 0 ELSE 1
            /\ json_writes' = IF err \in {"none", "json_write"} THEN 1 ELSE 0
            /\ save_error' = err
            /\ result' = FinishResult(unique, err)
  /\ pc' = "idle"
  /\ UNCHANGED <<api_key, force_update, idx, all_articles, api_requests, rss_fetches,
                 last_fetch, entry, calls_left, payloads_left, f_in, f_out>>

Next ==
  \/ Construct
  \/ CallAlreadyExists
  \/ CallKeyMissing
  \/ CallStart
  \/ FetchApi
  \/ FetchRss
  \/ Finish

Spec == Init /\ [][Next]_vars

\* one run of collect_all_news on a day without files, with a key
InitRun ==
  /\ Fresh
  /\ api_key = "KEY"
  /\ calls_left = 1
  /\ payloads_left = MaxRunPayloads

NextRun ==
  \/ CallStart
  \/ FetchApi
  \/ FetchRss
  \/ Finish

SpecRun == InitRun /\ [][NextRun]_vars


\* ------------------------------------------------ one fetch, wider inputs
SeqsUpTo(S, n) == UNION {[1..k -> S] : k \in 0..n}

ContentCases ==
  { Absent, Null, Str(<<>>), Str(Text(3)), Str(Text(ContentLimit)),
    Str(Text(ContentLimit + 1)) }

FetchRaws ==
  { [RawArticle(U1, T1) EXCEPT !.content = c] : c \in ContentCases }
  \cup { [RawArticle(U2, T2) EXCEPT !.title = Str(<<>>)],
         [RawArticle(U2, T2) EXCEPT !.title = Absent],
         [RawArticle(U2, T2) EXCEPT !.title = Null, !.description = Absent],
         [RawArticle(U2, T2) EXCEPT !.description = Str(<<>>)],
         [RawArticle(U2, T2) EXCEPT !.description = Absent],
         [RawArticle(U2, T2) EXCEPT !.url = Absent],
         [RawArticle(U2, T2) EXCEPT !.source = Absent],
         [RawArticle(U2, T2) EXCEPT !.author = Null] }

FetchResponses ==
  { ApiKind("timeout"), ApiKind("http_error"), ApiKind("bad_json"), ApiKind("ok"),
    [kind |-> "ok", articles |-> Null] }
  \cup { ApiOk(raws) : raws \in SeqsUpTo(FetchRaws, MaxRespLen) }

ContentList(v) == [tag |-> "list", val |-> v]

FetchEntries ==
  { RawEntry(U1, T1),
    [RawEntry(U1, T1) EXCEPT !.summary = Absent],
    [RawEntry(U1, T1) EXCEPT !.summary = Str(Text(SummaryLimit + 1))],
    [RawEntry(U1, Text(SummaryLimit + 1)) EXCEPT !.summary = Absent],
    [RawEntry(U1, <<>>) EXCEPT !.summary = Absent],
    [RawEntry(U2, T2) EXCEPT !.title = Absent],
    [RawEntry(U2, T2) EXCEPT !.link = Absent],
    [RawEntry(U2, T2) EXCEPT !.content = ContentList(<<>>)],
    [RawEntry(U2, T2) EXCEPT !.content = ContentList(<<Absent>>)],
    [RawEntry(U2, T2) EXCEPT !.content = ContentList(<<Str(<<>>)>>)],
    [RawEntry(U2, T2) EXCEPT !.content = ContentList(<<Str(Text(3))>>)],
    [RawEntry(U2, T2) EXCEPT !.content = ContentList(<<Str(Text(ContentLimit + 1))>>)],
    [RawEntry(U2, T2) EXCEPT !.published = Absent, !.author = Str(<<"a">>)] }

\* a feed of n entries with distinct links and no summaries
LongFeed(n) ==
  [i \in 1..n |-> [RawEntry(<<"u">> \o Text(i), <<"t">> \o Text(i)) EXCEPT !.summary = Absent]]

FetchFeeds ==
  { [kind |-> "raise", entries |-> <<>>], [kind |-> "unreachable", entries |-> <<>>] }
  \cup { FeedOk(es) : es \in SeqsUpTo(FetchEntries, MaxRespLen) }
  \cup { FeedOk(LongFeed(n)) : n \in {RssLimit, RssLimit + 1} }
  \cup { FeedOk([LongFeed(RssLimit + 1) EXCEPT ![n].title = Absent]) : n \in {RssLimit, RssLimit + 1} }

InitFetch ==
  /\ Fresh
  /\ api_key = "KEY"
  /\ calls_left = 0
  /\ payloads_left = 0

\* _fetch_news_by_config(config) on one answer of the API
FetchOneApi ==
  /\ f_in.kind = "none"
  /\ \E i \in 1..NumConfigs, response \in FetchResponses :
       /\ f_in' = [kind |-> "api", src |-> i, response |-> response]
       /\ f_out' = FetchNewsByConfig(countries_and_categories[i], response)
  /\ UNCHANGED <<api_key, csv_file, json_file, pc, force_update, idx, all_articles,
                 unique_articles, result, api_requests, rss_fetches, last_fetch,
                 save_error, csv_writes, json_writes, entry, calls_left, payloads_left>>

\* _fetch_rss_news(rss_config) on one outcome of feedparser.parse
FetchOneRss ==
  /\ f_in.kind = "none"
  /\ \E i \in 1..NumRss, feed \in FetchFeeds :
       /\ f_in' = [kind |-> "rss", src |-> i, feed |-> feed]
       /\ f_out' = FetchRssNews(rss_sources[i], feed)
  /\ UNCHANGED <<api_key, csv_file, json_file, pc, force_update, idx, all_articles,
                 unique_articles, result, api_requests, rss_fetches, last_fetch,
                 save_error, csv_writes, json_writes, entry, calls_left, payloads_left>>

NextFetch ==
  \/ FetchOneApi
  \/ FetchOneRss

SpecFetch == InitFetch /\ [][NextFetch]_vars


\* ================================================================ properties
NoKey == api_key \in {"", "None"}
NoRequests == api_requests = <<>> /\ rss_fetches = <<>>
NoRequestsNext == api_requests' = <<>> /\ rss_fetches' = <<>>

\* a step that enters collect_all_news
CallEntered == pc = "idle" /\ calls_left' = calls_left - 1

\* a call has returned
Returned == pc = "idle" /\ result.status # "none"

Min(a, b) == IF a < b THEN a ELSE b

\* C1: a call without force_update that finds both files of the day returns
\* "already_exists" at once, with no headline-API request, no RSS fetch and
\* both files as they were; with exactly one of the two files the call does
\* not return "already_exists".
C1_Guard ==
  [][CallEntered =>
       /\ (csv_file.exists /\ json_file.exists /\ ~force_update') =>
            /\ result'.status = "already_exists"
            /\ pc' = "idle"
            /\ NoRequestsNext
            /\ csv_file' = csv_file
            /\ json_file' = json_file
       /\ (csv_file.exists # json_file.exists) => result'.status # "already_exists"]_vars

C1_Witness ==
  /\ Returned
  /\ result.status = "already_exists"
  /\ ~force_update
  /\ entry.had_csv /\ entry.had_json
  /\ NoRequests

\* C2 as stated: every call on a collector without API key returns an error
\* result, makes no network call and leaves the files alone.
C2_Original ==
  [][(CallEntered /\ NoKey) =>
       /\ result'.status = "error"
       /\ pc' = "idle"
       /\ NoRequestsNext
       /\ csv_file' = csv_file
       /\ json_file' = json_file]_vars

\* C2: a call on a collector without API key makes no network call and
\* leaves the files alone; it returns the error result, unless force_update
\* is false and both files of the day exist: then it returns "already_exists".
C2_Amended ==
  [][(CallEntered /\ NoKey) =>
       /\ result'.status =
            IF csv_file.exists /\ json_file.exists /\ ~force_update'
            THEN "already_exists" ELSE "error"
       /\ pc' = "idle"
       /\ NoRequestsNext
       /\ csv_file' = csv_file
       /\ json_file' = json_file]_vars

C2_Witness ==
  /\ Returned
  /\ result.status = "error"
  /\ NoKey
  /\ NoRequests
  /\ csv_file.exists = entry.had_csv
  /\ json_file.exists = entry.had_json

\* the positions of all_articles that hold the first article of their url
Firsts(s) == {i \in 1..Len(s) : \A j \in 1..(i - 1) : s[j].url # s[i].url}

\* C3: the list handed to _save_to_files has no two articles of one url; it
\* is made of the first article of each url of the concatenated fetch
\* results, in the order of that list.
C3_FirstOccurrenceWins ==
  (Returned /\ result.status = "success") =>
    /\ \A a, b \in 1..Len(unique_articles) :
         a # b => unique_articles[a].url # unique_articles[b].url
    /\ Len(unique_articles) = Cardinality(Firsts(all_articles))
    /\ \A i \in Firsts(all_articles) :
         unique_articles[Cardinality({j \in Firsts(all_articles) : j <= i})] = all_articles[i]

C3_Witness ==
  /\ Returned
  /\ result.status = "success"
  /\ \E i, j \in 1..Len(all_articles) :
       /\ i < j
       /\ all_articles[i].url = all_articles[j].url
       /\ all_articles[i].title # all_articles[j].title
       /\ all_articles[i].id[1] # all_articles[j].id[1]
       /\ \E k \in 1..Len(unique_articles) : unique_articles[k] = all_articles[i]

\* C4: a source that fails adds no article and the run goes on to the next
\* source; a run that was started ends with all 12 configurations and all 6
\* feeds fetched, the articles of the other sources deduplicated and handed
\* to _save_to_files, and a success result.
C4_FetchStep ==
  pc \in {"api", "rss"} =>
    /\ last_fetch'.failed => (all_articles' = all_articles /\ last_fetch'.n = 0)
    /\ Len(all_articles') = Len(all_articles) + last_fetch'.n
    /\ pc' \in {"api", "rss", "save"}
    /\ Len(api_requests') + Len(rss_fetches') = Len(api_requests) + Len(rss_fetches) + 1

C4_FailSoft ==
  /\ [][C4_FetchStep]_vars
  /\ [](Returned =>
          /\ result.status = "success"
          /\ Len(api_requests) = NumConfigs
          /\ Len(rss_fetches) = NumRss
          /\ {all_articles[i].url : i \in 1..Len(all_articles)}
               = {unique_articles[i].url : i \in 1..Len(unique_articles)}
          /\ save_error = "none" =>
               (json_file.articles = unique_articles /\ Len(csv_file.rows) = Len(unique_articles)))

C4_Witness ==
  /\ Returned
  /\ result.status = "success"
  /\ last_fetch.failed
  /\ unique_articles # <<>>
  /\ save_error = "none"
  /\ json_file.articles = unique_articles

C8_ForcedOverwrite ==
  (Returned /\ force_update /\ result.status = "success" /\ save_error = "none"
     /\ entry.had_csv /\ entry.had_json) =>
    /\ csv_file.exists /\ csv_file.whole
    /\ Len(csv_file.rows) = Len(unique_articles)
    /\ \A i \in 1..Len(unique_articles) : csv_file.rows[i] = CsvRow(unique_articles[i])
    /\ json_file.exists /\ json_file.whole
    /\ json_file.articles = unique_articles
    /\ json_file.total_articles = Len(unique_articles)
    /\ result.total_articles = Len(unique_articles)
    /\ Len(unique_articles) = Cardinality({all_articles[i].url : i \in 1..Len(all_articles)})

C8_Witness ==
  /\ Returned /\ force_update /\ result.status = "success" /\ save_error = "none"
  /\ entry.had_csv /\ entry.had_json
  /\ entry.had_rows > 0
  /\ Len(csv_file.rows) # entry.had_rows

\* C9: the sources are fetched one at a time in list order, the 12
\* configurations before any feed, each once; the files change only in the
\* step that ends the run, after all 18 fetches, and each file is written at
\* most once in a run.
C9_Step ==
  /\ Len(api_requests') + Len(rss_fetches') <= Len(api_requests) + Len(rss_fetches) + 1
  /\ (csv_file' # csv_file \/ json_file' # json_file) =>
       /\ pc = "save" /\ pc' = "idle"
       /\ Len(api_requests) = NumConfigs
       /\ Len(rss_fetches) = NumRss

C9_OrderAndSingleWrite ==
  /\ [](/\ Len(api_requests) <= NumConfigs
        /\ Len(rss_fetches) <= NumRss
        /\ \A i \in 1..Len(api_requests) :
             api_requests[i].name = countries_and_categories[i].name
        /\ \A i \in 1..Len(rss_fetches) : rss_fetches[i] = rss_sources[i].url
        /\ rss_fetches # <<>> => Len(api_requests) = NumConfigs
        /\ pc # "idle" => (csv_writes = 0 /\ json_writes = 0)
        /\ csv_writes <= 1 /\ json_writes <= 1
        /\ (Returned /\ result.status = "success") =>
             (Len(api_requests) = NumConfigs /\ Len(rss_fetches) = NumRss))
  /\ [][C9_Step]_vars

C9_Witness ==
  /\ Returned
  /\ result.status = "success"
  /\ entry.had_csv /\ entry.had_json
  /\ csv_writes = 1 /\ json_writes = 1
  /\ Len(api_requests) = NumConfigs
  /\ Len(rss_fetches) = NumRss

\* C10: when writing the CSV or the JSON file fails, collect_all_news still
\* returns its success result; a CSV file written before the JSON write
\* failed stays as written, and a file cut short stays too.
C10_SaveFailureNotFatal ==
  (Returned /\ save_error # "none") =>
    /\ result.status = "success"
    /\ result.total_articles = Len(unique_articles)
    /\ save_error \in {"json_open", "json_write"} =>
         /\ csv_file.exists /\ csv_file.whole
         /\ Len(csv_file.rows) = Len(unique_articles)
         /\ \A i \in 1..Len(unique_articles) : csv_file.rows[i] = CsvRow(unique_articles[i])
    /\ save_error = "csv_write" => (csv_file.exists /\ ~csv_file.whole)
    /\ save_error = "json_write" => (json_file.exists /\ ~json_file.whole)

C10_Witness ==
  /\ Returned
  /\ save_error = "json_write"
  /\ result.status = "success"
  /\ unique_articles # <<>>
  /\ csv_file.whole
  /\ Len(csv_file.rows) = Len(unique_articles)
  /\ json_file.exists /\ ~json_file.whole


\* ------------------------------------------------ properties of one fetch
\* the raw articles of the answer, the entries of the feed
FetchedRaws ==
  IF f_in.kind = "api" /\ f_in.response.kind = "ok" /\ f_in.response.articles.tag = "list"
  THEN f_in.response.articles.val ELSE <<>>

FetchedEntries == IF f_in.kind = "rss" THEN f_in.feed.entries ELSE <<>>

\* a headline-API article is in the result only if its title and its
\* description are present and non-empty
C5_ApiFilter ==
  f_in.kind = "api" =>
    /\ \A k \in 1..Len(f_out) :
         /\ f_out[k].title # <<>>
         /\ f_out[k].description # <<>>
         /\ \E r \in 1..Len(FetchedRaws) :
              /\ FetchedRaws[r].title = Str(f_out[k].title)
              /\ FetchedRaws[r].description = Str(f_out[k].description)
    /\ Len(f_out) <= Cardinality({r \in 1..Len(FetchedRaws) :
                       /\ FetchedRaws[r].title.tag = "str" /\ FetchedRaws[r].title.val # <<>>
                       /\ FetchedRaws[r].description.tag = "str"
                       /\ FetchedRaws[r].description.val # <<>>})

\* entry k of the feed is article k of the result; without summary its
\* description is made of its title (200 characters, then "...")
C5_EntryKept(k) ==
  /\ f_out[k].title = FetchedEntries[k].title.val
  /\ f_out[k].url = FetchedEntries[k].link
  /\ FetchedEntries[k].summary.tag = "absent" =>
       f_out[k].description
         = SubSeq(FetchedEntries[k].title.val, 1, Min(SummaryLimit, Len(FetchedEntries[k].title.val)))
             \o <<".", ".", ".">>

\* C5 as stated: the headline-API filter, and every one of the first 10
\* entries of a feed is in the result.
C5_Original ==
  /\ C5_ApiFilter
  /\ (f_in.kind = "rss" /\ f_in.feed.kind # "raise") =>
       /\ Len(f_out) = Min(RssLimit, Len(FetchedEntries))
       /\ \A k \in 1..Len(f_out) : C5_EntryKept(k)

\* an entry among the first 10 whose processing raises: no title, no link or
\* an empty content list
C5_FeedRaises ==
  \/ f_in.feed.kind = "raise"
  \/ \E k \in 1..Min(RssLimit, Len(FetchedEntries)) :
       \/ FetchedEntries[k].title.tag = "absent"
       \/ FetchedEntries[k].link.tag = "absent"
       \/ FetchedEntries[k].content = [tag |-> "list", val |-> <<>>]

\* C5: the headline-API filter; a feed has no such filter: every one of its
\* first 10 entries is in the result, an entry without summary with a
\* description made of its title, unless processing one of these entries
\* raises, and then the feed gives no article at all.
C5_Amended ==
  /\ C5_ApiFilter
  /\ f_in.kind = "rss" =>
       IF C5_FeedRaises THEN f_out = <<>>
       ELSE /\ Len(f_out) = Min(RssLimit, Len(FetchedEntries))
            /\ \A k \in 1..Len(f_out) : C5_EntryKept(k)

C5_Witness ==
  /\ f_in.kind = "rss"
  /\ Len(FetchedEntries) > RssLimit
  /\ Len(f_out) = RssLimit
  /\ FetchedEntries[1].summary.tag = "absent"
  /\ f_out[1].description = FetchedEntries[1].title.val \o <<".", ".", ".">>

\* the content of the source: of a raw article, of a feed entry
C6_ApiSource(a) == IF a.content.tag = "str" THEN a.content.val ELSE <<>>
C6_RssSource(e) ==
  IF e.content.tag = "list" /\ e.content.val # <<>> /\ e.content.val[1].tag = "str"
  THEN e.content.val[1].val ELSE <<>>

C6_Stored(source, stored) ==
  /\ Len(source) > ContentLimit =>
       /\ stored = SubSeq(source, 1, ContentLimit) \o <<".", ".", ".">>
       /\ Len(stored) = ContentLimit + 3
  /\ source = <<>> => stored = <<>>

\* C6: an article whose source content is longer than 1000 characters stores
\* its first 1000 characters followed by "..."; an article whose source
\* content is absent or empty stores the empty text.  (Stated of the answers
\* all of whose articles, and of the feeds all of whose entries, are in the
\* result, so that article k of the result is article k of the source.)
C6_Truncation ==
  /\ (f_in.kind = "api" /\ Len(f_out) = Len(FetchedRaws)) =>
       \A k \in 1..Len(f_out) : C6_Stored(C6_ApiSource(FetchedRaws[k]), f_out[k].content)
  /\ (f_in.kind = "rss" /\ Len(f_out) = Len(FetchedEntries)) =>
       \A k \in 1..Len(f_out) : C6_Stored(C6_RssSource(FetchedEntries[k]), f_out[k].content)

====
